---- MODULE Spec2Model ----
(***************************************************************************)
(* Model of Source/hash.cpp (AuthHashCalc): the exclusion range            *)
(* calculator HashpGetExcludeRange, the CNG context life cycle             *)
(* (CreateHashContext / DestroyHashContext), the padding helper            *)
(* HashpAddPad and the two hashers CalculateAuthenticodeHash and           *)
(* CalculateFirstPageHash.                                                 *)
(*                                                                         *)
(* ULONG arithmetic is modular.  The modulus is 2^ULongBits; the width is  *)
(* scaled down from 32 so that every value stays inside the integers of    *)
(* the model checker.  All sums and differences the code computes in       *)
(* ULONG go through U32Add / U32Sub.                                       *)
(***************************************************************************)
EXTENDS Integers, Sequences, FiniteSets, TLC

VARIABLES
    files,   \* the input files, in the order they are hashed
    req,     \* the request: which hasher runs, and PageSize
    cur,     \* index in files of the file being processed
    pc,      \* position of the program
    view,    \* FILE_VIEW_INFO of the current file
    live,    \* resources of the CNG context that are open
    ctx,     \* *Context as CreateHashContext left it
    engine,  \* what the hash engine has been asked to do on this context
    loc,     \* locals of the running hasher / HashpAddPad
    out      \* one record per finished file

vars == <<files, req, cur, pc, view, live, ctx, engine, loc, out>>

----------------------------------------------------------------------------
(* Widths and program constants *)

ULongBits == 16
UMod == 2 ^ ULongBits

U32Add(a, b) == (a + b) % UMod
U32Sub(a, b) == (a - b + UMod) % UMod

DEFAULT_ALIGN_BYTES == 8

IMAGE_NT_OPTIONAL_HDR64_MAGIC == 523
IMAGE_NT_OPTIONAL_HDR32_MAGIC == 267

\* UFIELD_OFFSET(IMAGE_NT_HEADERSxx, OptionalHeader.CheckSum)
CheckSumFieldOffset64 == 88
CheckSumFieldOffset32 == 88
\* UFIELD_OFFSET(IMAGE_NT_HEADERSxx,
\*               OptionalHeader.DataDirectory[IMAGE_DIRECTORY_ENTRY_SECURITY])
SecurityFieldOffset64 == 168
SecurityFieldOffset32 == 152
\* RTL_FIELD_SIZE(IMAGE_OPTIONAL_HEADER, CheckSum), sizeof(IMAGE_DATA_DIRECTORY)
CheckSumFieldSize == 4
DataDirectorySize == 8

NoExcludeData ==
    [ChecksumOffset |-> 0, SecurityOffset |-> 0,
     SecurityDirectory |-> [VirtualAddress |-> 0, Size |-> 0], written |-> FALSE]

----------------------------------------------------------------------------
(* HashpGetExcludeRange *)

\* The data directory the code points dataDirectory at: the security entry
\* of the optional header of the mapped file.
DataDirectoryOf(f) == [VirtualAddress |-> f.VirtualAddress, Size |-> f.Size]

\* The same sum taken over the first entry of the section table.
LastSectionEnd_FirstEntry(f) ==
    U32Add(f.sections[1].PointerToRawData, f.sections[1].SizeOfRawData)

\* c of lines 151-152: end of the raw data of the last section table entry.
LastSectionEnd(f) ==
    U32Add(f.sections[f.NumberOfSections].PointerToRawData,
           f.sections[f.NumberOfSections].SizeOfRawData)

\* The result of HashpGetExcludeRange on file f with the view's ExcludeData ed
\* and LastError le: [ret, LastError, ExcludeData].
HashpGetExcludeRange(f, ed, le) ==
    LET Fail(e) == [ret |-> FALSE, LastError |-> e, ExcludeData |-> ed]
        is64 == f.Magic = IMAGE_NT_OPTIONAL_HDR64_MAGIC
        is32 == f.Magic = IMAGE_NT_OPTIONAL_HDR32_MAGIC
        checksumOffset ==
            IF is64 THEN U32Add(f.e_lfanew, CheckSumFieldOffset64)
                    ELSE U32Add(f.e_lfanew, CheckSumFieldOffset32)
        securityOffset ==
            IF is64 THEN U32Add(f.e_lfanew, SecurityFieldOffset64)
                    ELSE U32Add(f.e_lfanew, SecurityFieldOffset32)
        dataDirectory == DataDirectoryOf(f)
        Accept == [ret |-> TRUE, LastError |-> le,
                   ExcludeData |-> [ChecksumOffset |-> checksumOffset,
                                    SecurityOffset |-> securityOffset,
                                    SecurityDirectory |-> dataDirectory,
                                    written |-> TRUE]]
    IN  IF ~(is64 \/ is32)
        THEN Fail("IMAGE_VERIFY_BAD_OPTIONAL_HEADER_MAGIC")
        ELSE IF dataDirectory.VirtualAddress = 0
        THEN Accept
        ELSE IF f.NumberOfSections = 0
        THEN Fail("IMAGE_VERIFY_BAD_SECTION_COUNT")
        ELSE IF dataDirectory.VirtualAddress < LastSectionEnd(f)
        THEN Fail("IMAGE_VERIFY_BAD_SECURITY_DIRECTORY_VA")
        ELSE IF dataDirectory.VirtualAddress >= f.FileSize
        THEN Fail("IMAGE_VERIFY_BAD_SECURITY_DIRECTORY_VA")
        ELSE IF dataDirectory.Size > U32Sub(f.FileSize, dataDirectory.VirtualAddress)
        THEN Fail("IMAGE_VERIFY_BAD_SECURITY_DIRECTORY_SIZE")
        ELSE Accept

----------------------------------------------------------------------------
(* Input headers for the exclusion range calculator *)

MaxSections == 2

RangeLfanew == {4, 64, UMod - 100, UMod - 160}
RangeMagic ==
    {IMAGE_NT_OPTIONAL_HDR32_MAGIC, IMAGE_NT_OPTIONAL_HDR64_MAGIC, 263}
RangeSection ==
    {[PointerToRawData |-> 0, SizeOfRawData |-> 0],
     [PointerToRawData |-> 64, SizeOfRawData |-> 64],
     [PointerToRawData |-> 128, SizeOfRawData |-> 128],
     [PointerToRawData |-> UMod - 32, SizeOfRawData |-> 64]}
RangeTables == UNION {[1..n -> RangeSection] : n \in 0..MaxSections}
RangeVA == {0, 100, 192, 240, 256, 300}
RangeSize == {0, 8, 16, 100}
RangeFileSize == {100, 256, 264}

\* A file as the loader hands it over: the header fields the code reads, the
\* size, a description of the remaining bytes (see Byte), and slack: how many
\* bytes past the end of the file the mapping happens to be readable (they
\* read as zero); a read further out is an access violation.
MkFile(e, m, t, va, sz, soh, fs) ==
    [e_lfanew |-> e, Magic |-> m, NumberOfSections |-> Len(t), sections |-> t,
     VirtualAddress |-> va, Size |-> sz, SizeOfHeaders |-> soh, FileSize |-> fs,
     CheckSum |-> 0, bodySize |-> fs, patchAt |-> -1, patchVal |-> 0,
     slack |-> 0]

RangeFiles ==
    {MkFile(e, m, t, va, sz, 0, fs) :
        e \in RangeLfanew, m \in RangeMagic, t \in RangeTables,
        va \in RangeVA, sz \in RangeSize, fs \in RangeFileSize}

NoView == [FileSize |-> 0, LastError |-> "NONE", ExcludeData |-> NoExcludeData,
           mapped |-> FALSE]
NoEngine == [fed |-> <<>>, nData |-> 0, nPad |-> 0, nFinish |-> 0,
             finishOk |-> FALSE, afterFinish |-> 0, anyFail |-> FALSE,
             directFail |-> FALSE, faulted |-> FALSE, spans |-> <<>>]
NoLoc == [offset |-> 0, cbInput |-> 0, ntStatus |-> "STATUS_INVALID_IMAGE_FORMAT",
          cbPad |-> 0, i |-> 0, padFrom |-> "none", padFailed |-> FALSE,
          padCount |-> 0]

RangeInit ==
    /\ files \in {<<f>> : f \in RangeFiles}
    /\ req = [mode |-> "range", PageSize |-> 0]
    /\ cur = 1
    /\ pc = "range"
    /\ view = [NoView EXCEPT !.FileSize = files[1].FileSize, !.mapped = TRUE]
    /\ live = {}
    /\ ctx = "NULL"
    /\ engine = NoEngine
    /\ loc = NoLoc
    /\ out = <<>>

\* One call of HashpGetExcludeRange on the mapped file.
GetExcludeRange ==
    /\ pc = "range"
    /\ LET r == HashpGetExcludeRange(files[cur], view.ExcludeData, view.LastError)
       IN  /\ view' = [view EXCEPT !.LastError = r.LastError,
                                   !.ExcludeData = r.ExcludeData]
           /\ out' = Append(out, [ret |-> r.ret])
    /\ pc' = "ranged"
    /\ UNCHANGED <<files, req, cur, live, ctx, engine, loc>>

RangeNext == GetExcludeRange

SpecRange == RangeInit /\ [][RangeNext]_vars

----------------------------------------------------------------------------
(* The mapped image: ViewBase[p] *)

ChecksumOffsetOf(f) ==
    IF f.Magic = IMAGE_NT_OPTIONAL_HDR64_MAGIC
    THEN U32Add(f.e_lfanew, CheckSumFieldOffset64)
    ELSE U32Add(f.e_lfanew, CheckSumFieldOffset32)

SecurityOffsetOf(f) ==
    IF f.Magic = IMAGE_NT_OPTIONAL_HDR64_MAGIC
    THEN U32Add(f.e_lfanew, SecurityFieldOffset64)
    ELSE U32Add(f.e_lfanew, SecurityFieldOffset32)

\* Byte k (0 = lowest) of the little-endian field holding x.
LEByte(x, k) == (x \div (256 ^ k)) % 256
SetLEByte(x, k, v) == x - LEByte(x, k) * (256 ^ k) + v * (256 ^ k)

\* The byte of file f at offset p (0 <= p < f.FileSize + f.slack).  The
\* bytes past the end of the file read as zero.  The checksum field
\* and the security directory entry hold the header fields of f; the bytes
\* from bodySize on are an appended certificate blob; one other byte may be
\* patched; the rest is fixed content.
Byte(f, p) ==
    LET c == ChecksumOffsetOf(f)
        s == SecurityOffsetOf(f)
    IN  IF p >= f.FileSize THEN 0
        ELSE IF p >= s /\ p < s + 4 THEN LEByte(f.VirtualAddress, p - s)
        ELSE IF p >= s + 4 /\ p < s + 8 THEN LEByte(f.Size, p - s - 4)
        ELSE IF p >= c /\ p < c + 4 THEN LEByte(f.CheckSum, p - c)
        ELSE IF p = f.patchAt THEN f.patchVal
        ELSE IF p >= f.bodySize THEN 255 - (p % 2)
        ELSE (p * 7) % 11

\* The bytes a read of cb bytes at offset off of the view returns.
ViewBytes(f, off, cb) == [k \in 1..cb |-> Byte(f, off + k - 1)]

\* A read of cb bytes at offset off leaves the readable mapping: the access
\* violation the __try / __except of the hashers traps.
ReadFaults(f, off, cb) == cb > 0 /\ off + cb > f.FileSize + f.slack

----------------------------------------------------------------------------
(* Input files for the hashers *)

MaxCertLen == 2

HashLfanew == {4, 64}
HashMagic == {IMAGE_NT_OPTIONAL_HDR32_MAGIC, IMAGE_NT_OPTIONAL_HDR64_MAGIC}
HashFileSize == {240, 243, 248}
HashTables ==
    {<<[PointerToRawData |-> 128, SizeOfRawData |-> 64]>>,
     <<[PointerToRawData |-> 0, SizeOfRawData |-> 0]>>}
CraftedVA == {16, 200}

\* Unsigned files: no security directory.
UnsignedFiles ==
    {MkFile(e, m, t, 0, 0, 0, fs) :
        e \in HashLfanew, m \in HashMagic, t \in HashTables, fs \in HashFileSize}

\* f after signing: a certificate blob of certLen bytes appended at the old
\* end of file, the directory entry pointing at it, the checksum rewritten.
Signed(f, certLen, sz) ==
    [f EXCEPT !.VirtualAddress = f.FileSize, !.Size = sz,
              !.FileSize = f.FileSize + certLen, !.CheckSum = 4660]

\* f with a directory entry crafted to point at offset va of the file.
Crafted(f, va) == [f EXCEPT !.VirtualAddress = va, !.Size = 8]

\* f with the byte at offset p changed.
Tamper(f, p) ==
    LET c == ChecksumOffsetOf(f)
        s == SecurityOffsetOf(f)
        old == Byte(f, p)
        new == IF old > 0 THEN old - 1 ELSE 1
    IN  IF p >= s /\ p < s + 4
        THEN [f EXCEPT !.VirtualAddress = SetLEByte(f.VirtualAddress, p - s, new)]
        ELSE IF p >= s + 4 /\ p < s + 8
        THEN [f EXCEPT !.Size = SetLEByte(f.Size, p - s - 4, new)]
        ELSE IF p >= c /\ p < c + 4
        THEN [f EXCEPT !.CheckSum = SetLEByte(f.CheckSum, p - c, new)]
        ELSE [f EXCEPT !.patchAt = p, !.patchVal = new]

SignedFiles ==
    {Signed(f, n, sz) : f \in UnsignedFiles, n \in 1..MaxCertLen, sz \in {1}}

\* Offsets worth changing in f: around the two skipped fields, inside them,
\* at the end of the hashed part, in the certificate blob and after it.
TamperOffsets(f) ==
    LET c == ChecksumOffsetOf(f)
        s == SecurityOffsetOf(f)
    IN  {p \in {2, c - 1, c, c + 4, s - 1, s, s + 4, s + 8,
                f.bodySize - 1, f.bodySize, f.FileSize - 1} :
            p >= 0 /\ p < f.FileSize}

TamperBases ==
    {f \in UnsignedFiles \cup SignedFiles : f.sections[1].SizeOfRawData > 0}

AuthInputs ==
    {<<f>> : f \in UnsignedFiles}
    \cup {<<Crafted(f, va)>> : f \in UnsignedFiles, va \in CraftedVA}
    \cup {<<f, Signed(f, n, 1)>> : f \in UnsignedFiles, n \in 1..MaxCertLen}
    \cup UNION {{<<f, Tamper(f, p)>> : p \in TamperOffsets(f)} : f \in TamperBases}

PageSizes == {90, 94, 96, 158, 176, 256}
PageHeaderSizes == {100, 512}
PageSlack == {0, 16}
PageInputs ==
    {<<[MkFile(e, m, <<>>, 0, 0, soh, 248) EXCEPT !.slack = k]>> :
        e \in HashLfanew, m \in HashMagic, soh \in PageHeaderSizes,
        k \in PageSlack}

----------------------------------------------------------------------------
(* The hash flow: load, create the context, hash, destroy *)

NT_SUCCESS(st) == st = "STATUS_SUCCESS"

HashInit ==
    /\ req \in {[mode |-> "auth", PageSize |-> 0]}
                \cup {[mode |-> "page", PageSize |-> ps] : ps \in PageSizes}
    /\ files \in (IF req.mode = "auth" THEN AuthInputs ELSE PageInputs)
    /\ cur = 1
    /\ pc = "load"
    /\ view = NoView
    /\ live = {}
    /\ ctx = "NULL"
    /\ engine = NoEngine
    /\ loc = NoLoc
    /\ out = <<>>

\* The record kept of a file once the program is through with it.
Outcome(stage, ret) ==
    [stage |-> stage, ret |-> ret, fed |-> <<>>, excl |-> view.ExcludeData,
     FileSize |-> view.FileSize, engine |-> NoEngine, offset |-> 0,
     padFailed |-> FALSE]

\* HashLoadFile: map the file and compute the exclude range; on failure the
\* view is destroyed and STATUS_INVALID_IMAGE_FORMAT returned.
HashLoadFile ==
    /\ pc = "load"
    /\ LET f == files[cur]
           mapped == [NoView EXCEPT !.FileSize = f.FileSize, !.mapped = TRUE]
           r == HashpGetExcludeRange(f, mapped.ExcludeData, mapped.LastError)
       IN  IF r.ret
           THEN /\ view' = [mapped EXCEPT !.ExcludeData = r.ExcludeData]
                /\ pc' = "create"
                /\ out' = out
           ELSE /\ view' = [NoView EXCEPT !.LastError = r.LastError]
                /\ pc' = "next"
                /\ out' = Append(out, [Outcome("rejected", FALSE) EXCEPT
                                          !.excl = NoExcludeData,
                                          !.FileSize = f.FileSize])
    /\ engine' = NoEngine
    /\ loc' = NoLoc
    /\ UNCHANGED <<files, req, cur, live, ctx>>

\* The calls of CreateHashContext that can fail, in the order it makes them.
CreateSteps ==
    <<"HeapAlloc(context)", "BCryptOpenAlgorithmProvider",
      "BCryptGetProperty(OBJECT_LENGTH)", "BCryptGetProperty(HASH_LENGTH)",
      "HeapAlloc(HashObject)", "HeapAlloc(Hash)", "BCryptCreateHash">>

\* What each successful call acquires.
Acquires(step) ==
    CASE step = 1 -> {"context"}
      [] step = 2 -> {"AlgHandle"}
      [] step = 5 -> {"HashObject"}
      [] step = 6 -> {"Hash"}
      [] step = 7 -> {"HashHandle"}
      [] OTHER -> {}

\* What the failure exit of CreateHashContext (lines 314-316) frees.
CreateCleanup(held) == held \ {"Hash", "HashObject", "context"}

\* CreateHashContext when its call number failAt fails (0: none fails):
\* [ntStatus, Context, held], held being the resources open on return.
CreateHashContextResult(failAt) ==
    LET held == UNION {Acquires(k) : k \in 1..(IF failAt = 0 THEN 7 ELSE failAt - 1)}
    IN  IF failAt = 0
        THEN [ntStatus |-> "STATUS_SUCCESS", Context |-> "context", held |-> held]
        ELSE IF failAt = 1
        THEN [ntStatus |-> "STATUS_INSUFFICIENT_RESOURCES", Context |-> "NULL",
              held |-> {}]
        ELSE [ntStatus |-> IF failAt \in {5, 6}
                           THEN "STATUS_INSUFFICIENT_RESOURCES"
                           ELSE "STATUS_UNSUCCESSFUL",
              Context |-> "NULL", held |-> CreateCleanup(held)]

CreateHashContext ==
    /\ pc = "create"
    /\ \E failAt \in 0..Len(CreateSteps) :
          LET r == CreateHashContextResult(failAt)
          IN  /\ ctx' = r.Context
              /\ live' = live \cup {<<cur, x>> : x \in r.held}
              /\ loc' = [NoLoc EXCEPT !.ntStatus = r.ntStatus]
    /\ pc' = "created"
    /\ UNCHANGED <<files, req, cur, view, engine, out>>

\* The caller: with a context it runs the requested hasher, without one it
\* gives the file up.
Dispatch ==
    /\ pc = "created"
    /\ IF NT_SUCCESS(loc.ntStatus)
       THEN /\ pc' = IF req.mode = "auth" THEN "a1" ELSE "p_loop"
            /\ loc' = NoLoc
            /\ out' = out
       ELSE /\ pc' = "next"
            /\ loc' = loc
            /\ out' = Append(out, Outcome("nocontext", FALSE))
    /\ UNCHANGED <<files, req, cur, view, live, ctx, engine>>

\* What DestroyHashContext releases of a context holding held.
DestroyReleases(held) ==
    {"AlgHandle"}
    \cup (IF "HashHandle" \in held THEN {"HashHandle"} ELSE {})
    \cup (IF "Hash" \in held THEN {"Hash"} ELSE {})
    \cup (IF "HashObject" \in held THEN {"HashObject"} ELSE {})
    \cup {"context"}

DestroyHashContext ==
    /\ pc = "destroy"
    /\ LET held == {x \in {"context", "AlgHandle", "HashObject", "Hash", "HashHandle"} :
                       <<cur, x>> \in live}
       IN  live' = live \ {<<cur, x>> : x \in DestroyReleases(held)}
    /\ ctx' = "NULL"
    /\ pc' = "next"
    /\ UNCHANGED <<files, req, cur, view, engine, loc, out>>

\* The caller moves on to the next file, or is done.
NextFile ==
    /\ pc = "next"
    /\ IF cur < Len(files)
       THEN /\ cur' = cur + 1
            /\ pc' = "load"
       ELSE /\ cur' = cur
            /\ pc' = "done"
    /\ UNCHANGED <<files, req, view, live, ctx, engine, loc, out>>

----------------------------------------------------------------------------
(* The hash engine (BCryptHashData / BCryptFinishHash on HashHandle) *)

Status(ok) == IF ok THEN "STATUS_SUCCESS" ELSE "STATUS_UNSUCCESSFUL"

Zeros(n) == [k \in 1..n |-> 0]

\* BCryptHashData of bytes, succeeding or not.  direct: the call is made by a
\* hasher itself; pad: it is made by HashpAddPad.
HashData(e, bytes, ok, direct) ==
    [e EXCEPT !.fed = IF ok THEN @ \o bytes ELSE @,
              !.nData = IF ok /\ direct THEN @ + Len(bytes) ELSE @,
              !.nPad = IF ok /\ ~direct THEN @ + Len(bytes) ELSE @,
              !.afterFinish = IF e.nFinish > 0 THEN @ + 1 ELSE @,
              !.anyFail = @ \/ ~ok,
              !.directFail = @ \/ (~ok /\ direct)]

\* BCryptFinishHash, succeeding or not.
FinishHash(e, ok) ==
    [e EXCEPT !.nFinish = @ + 1, !.finishOk = ok, !.anyFail = @ \/ ~ok]

\* The hasher returns ret: the caller keeps the result and what the engine
\* was fed, and goes on to destroy the context.
Return(ret, e, l) ==
    /\ pc' = "destroy"
    /\ out' = Append(out, [Outcome("hashed", ret) EXCEPT
                              !.fed = e.fed, !.engine = [e EXCEPT !.fed = <<>>],
                              !.offset = l.offset, !.padFailed = l.padFailed])

\* The __except handler of both hashers.
Fault(e, l) ==
    /\ view' = [view EXCEPT !.LastError = "IMAGE_VERIFY_EXCEPTION_IN_PROCESS"]
    /\ engine' = [e EXCEPT !.faulted = TRUE]
    /\ loc' = l
    /\ Return(FALSE, [e EXCEPT !.faulted = TRUE], l)

----------------------------------------------------------------------------
(* HashpAddPad *)

Goto(l, to) == loc' = l /\ pc' = to /\ out' = out

\* The call HashpAddPad(PaddingSize, HashContext) made by hasher from.
PadEnter(PaddingSize, from, l) ==
    /\ loc' = [l EXCEPT !.cbPad = PaddingSize,
                        !.i = IF PaddingSize >= DEFAULT_ALIGN_BYTES
                              THEN PaddingSize \div 8 ELSE l.i,
                        !.ntStatus = "STATUS_SUCCESS",
                        !.padFrom = from, !.padFailed = FALSE,
                        !.padCount = PaddingSize]
    /\ pc' = IF PaddingSize >= DEFAULT_ALIGN_BYTES THEN "pad_loop" ELSE "pad_rest"

\* One turn of the do-while loop: a chunk of DEFAULT_ALIGN_BYTES zero bytes.
PadChunk ==
    /\ pc = "pad_loop"
    /\ \E ok \in BOOLEAN :
          /\ engine' = HashData(engine, Zeros(DEFAULT_ALIGN_BYTES), ok, FALSE)
          /\ loc' = [loc EXCEPT !.ntStatus = Status(ok),
                                !.cbPad = U32Sub(@, DEFAULT_ALIGN_BYTES),
                                !.i = U32Sub(@, 1),
                                !.padFailed = @ \/ ~ok]
    /\ pc' = IF loc'.i # 0 THEN "pad_loop" ELSE "pad_rest"
    /\ UNCHANGED <<files, req, cur, view, live, ctx, out>>

\* The rest of less than DEFAULT_ALIGN_BYTES zero bytes, and the return.
PadRest ==
    /\ pc = "pad_rest"
    /\ IF loc.cbPad # 0
       THEN \E ok \in BOOLEAN :
               /\ engine' = HashData(engine, Zeros(loc.cbPad), ok, FALSE)
               /\ loc' = [loc EXCEPT !.ntStatus = Status(ok),
                                     !.padFailed = @ \/ ~ok]
       ELSE UNCHANGED <<engine, loc>>
    /\ pc' = "pad_ret"
    /\ UNCHANGED <<files, req, cur, view, live, ctx, out>>

----------------------------------------------------------------------------
(* CalculateAuthenticodeHash *)

\* One BCryptHashData call of the hasher over cbInput bytes at fileOffset.
\* On success the hasher goes on at to, through HashpAddPad(cbPad) first if
\* cbPad is not 0; on failure it returns NT_SUCCESS(ntStatus).
AuthUpdate(fileOffset, cbInput, cbPad, to) ==
    LET l == [loc EXCEPT !.offset = fileOffset, !.cbInput = cbInput]
        e == [engine EXCEPT !.spans = Append(@, <<fileOffset, cbInput>>)]
    IN  IF ReadFaults(files[cur], fileOffset, cbInput)
        THEN Fault(e, l)
        ELSE \E ok \in BOOLEAN :
                LET e2 == HashData(e, ViewBytes(files[cur], fileOffset, cbInput),
                                   ok, TRUE)
                    l2 == [l EXCEPT !.ntStatus = Status(ok)]
                IN  /\ engine' = e2
                    /\ view' = view
                    /\ IF NT_SUCCESS(l2.ntStatus)
                       THEN IF cbPad # 0
                            THEN PadEnter(cbPad, "auth", l2) /\ out' = out
                            ELSE Goto(l2, to)
                       ELSE /\ loc' = l2
                            /\ Return(NT_SUCCESS(l2.ntStatus), e2, l2)

\* image[0 .. checksumOffset)
AuthUpdate1 ==
    /\ pc = "a1"
    /\ AuthUpdate(0, view.ExcludeData.ChecksumOffset, 0, "a2")
    /\ UNCHANGED <<files, req, cur, live, ctx>>

\* image[checksumOffset + 4 .. securityOffset)
AuthUpdate2 ==
    /\ pc = "a2"
    /\ LET fileOffset == U32Add(view.ExcludeData.ChecksumOffset, CheckSumFieldSize)
       IN  AuthUpdate(fileOffset,
                      U32Sub(view.ExcludeData.SecurityOffset, fileOffset), 0, "a3")
    /\ UNCHANGED <<files, req, cur, live, ctx>>

\* cbInput of the third call, were it always taken to the end of the file.
AuthLastInput_IgnoringDirectory(fileOffset) ==
    U32Sub(view.FileSize, fileOffset)

\* cbInput of the third call, were it one byte short.
AuthLastInput_ShortByOne(fileOffset) ==
    IF view.ExcludeData.SecurityDirectory.VirtualAddress = 0
    THEN U32Sub(U32Sub(view.FileSize, fileOffset), 1)
    ELSE U32Sub(U32Sub(view.ExcludeData.SecurityDirectory.VirtualAddress,
                       fileOffset), 1)

\* cbInput of the third call (lines 459-466).

AuthLastInput(fileOffset) ==
    IF view.ExcludeData.SecurityDirectory.VirtualAddress = 0
    THEN U32Sub(view.FileSize, fileOffset)
    ELSE U32Sub(view.ExcludeData.SecurityDirectory.VirtualAddress, fileOffset)

\* image[securityOffset + 8 .. certEnd), then the padding to a multiple of
\* DEFAULT_ALIGN_BYTES if one is due.
AuthUpdate3 ==
    /\ pc = "a3"
    /\ LET fileOffset == U32Add(view.ExcludeData.SecurityOffset, DataDirectorySize)
           cbInput == AuthLastInput(fileOffset)
           sz == cbInput % DEFAULT_ALIGN_BYTES
           cbPad == IF sz # 0 THEN DEFAULT_ALIGN_BYTES - sz ELSE 0
       IN  AuthUpdate(fileOffset, cbInput, cbPad, "a_fin")
    /\ UNCHANGED <<files, req, cur, live, ctx>>

\* HashpAddPad returned to CalculateAuthenticodeHash (lines 478-479).
AuthAfterPad ==
    /\ pc = "pad_ret"
    /\ loc.padFrom = "auth"
    /\ IF ~NT_SUCCESS(loc.ntStatus)
       THEN Return(FALSE, engine, loc)
       ELSE pc' = "a_fin" /\ out' = out
    /\ UNCHANGED <<files, req, cur, view, live, ctx, engine, loc>>

\* BCryptFinishHash, were TRUE returned whatever its status.
AuthFinish_ReturnsTrue ==
    /\ pc = "a_fin"
    /\ \E ok \in BOOLEAN :
          /\ engine' = FinishHash(engine, ok)
          /\ loc' = [loc EXCEPT !.ntStatus = Status(ok)]
          /\ Return(TRUE, engine', loc')
    /\ UNCHANGED <<files, req, cur, view, live, ctx>>

\* BCryptFinishHash and the return of NT_SUCCESS(ntStatus).
AuthFinish ==
    /\ pc = "a_fin"
    /\ \E ok \in BOOLEAN :
          /\ engine' = FinishHash(engine, ok)
          /\ loc' = [loc EXCEPT !.ntStatus = Status(ok)]
          /\ Return(NT_SUCCESS(loc'.ntStatus), engine', loc')
    /\ UNCHANGED <<files, req, cur, view, live, ctx>>

----------------------------------------------------------------------------
(* CalculateFirstPageHash *)

HashpGetSizeOfHeaders(f) ==
    IF f.Magic = IMAGE_NT_OPTIONAL_HDR64_MAGIC THEN f.SizeOfHeaders
    ELSE IF f.Magic = IMAGE_NT_OPTIONAL_HDR32_MAGIC THEN f.SizeOfHeaders
    ELSE 0

\* offset after the two skips of lines 372-375.
PageSkip(offset) ==
    IF offset = view.ExcludeData.ChecksumOffset
    THEN U32Add(offset, CheckSumFieldSize)
    ELSE IF offset = view.ExcludeData.SecurityOffset
    THEN U32Add(offset, DataDirectorySize)
    ELSE offset

\* One test of the while condition and, if it holds, one turn of the loop.
PageIter ==
    /\ pc = "p_loop"
    /\ LET sizeOfHeaders == HashpGetSizeOfHeaders(files[cur])
           o1 == PageSkip(loc.offset)
       IN  IF ~(loc.offset < req.PageSize)
           THEN Goto(loc, "p_exit") /\ UNCHANGED <<view, engine>>
           ELSE IF o1 >= sizeOfHeaders
           THEN Goto([loc EXCEPT !.offset = o1], "p_exit")
                /\ UNCHANGED <<view, engine>>
           ELSE IF ReadFaults(files[cur], o1, 1)
           THEN Fault(engine, [loc EXCEPT !.offset = o1])
           ELSE \E ok \in BOOLEAN :
                   LET e2 == HashData(engine, ViewBytes(files[cur], o1, 1), ok, TRUE)
                   IN  /\ engine' = e2
                       /\ view' = view
                       /\ IF NT_SUCCESS(Status(ok))
                          THEN Goto([loc EXCEPT !.offset = U32Add(o1, 1),
                                                !.ntStatus = Status(ok)], "p_loop")
                          ELSE /\ loc' = [loc EXCEPT !.offset = o1,
                                                     !.ntStatus = Status(ok)]
                               /\ Return(FALSE, e2, loc')
    /\ UNCHANGED <<files, req, cur, live, ctx>>

\* After the loop: pad up to PageSize if offset is short of it (lines 389-390).
PageExit ==
    /\ pc = "p_exit"
    /\ IF loc.offset < req.PageSize
       THEN PadEnter(U32Sub(req.PageSize, loc.offset), "page", loc)
       ELSE loc' = loc /\ pc' = "p_fin"
    /\ UNCHANGED <<files, req, cur, view, live, ctx, engine, out>>

\* HashpAddPad returned to CalculateFirstPageHash (lines 391-392).
PageAfterPad ==
    /\ pc = "pad_ret"
    /\ loc.padFrom = "page"
    /\ IF ~NT_SUCCESS(loc.ntStatus)
       THEN Return(FALSE, engine, loc)
       ELSE pc' = "p_fin" /\ out' = out
    /\ UNCHANGED <<files, req, cur, view, live, ctx, engine, loc>>

\* BCryptFinishHash and the return of NT_SUCCESS(ntStatus).
PageFinish ==
    /\ pc = "p_fin"
    /\ \E ok \in BOOLEAN :
          /\ engine' = FinishHash(engine, ok)
          /\ loc' = [loc EXCEPT !.ntStatus = Status(ok)]
          /\ Return(NT_SUCCESS(loc'.ntStatus), engine', loc')
    /\ UNCHANGED <<files, req, cur, view, live, ctx>>

----------------------------------------------------------------------------

Next ==
    \/ HashLoadFile
    \/ CreateHashContext
    \/ Dispatch
    \/ AuthUpdate1
    \/ AuthUpdate2
    \/ AuthUpdate3
    \/ AuthAfterPad
    \/ AuthFinish
    \/ PageIter
    \/ PageExit
    \/ PageAfterPad
    \/ PageFinish
    \/ PadChunk
    \/ PadRest
    \/ DestroyHashContext
    \/ NextFile

Spec == HashInit /\ [][Next]_vars

----------------------------------------------------------------------------
(* Claims about the exclusion range calculator (SpecRange) *)

RangeFile == files[1]
RangeRet == out[1].ret

\* C4: HashpGetExcludeRange returns TRUE and writes the descriptor exactly
\* when the magic is the 32- or 64-bit value and either VirtualAddress is 0
\* or the section count is positive, VirtualAddress is at or after the end
\* of the last section's raw data (the ULONG sum), VirtualAddress is below
\* the file size and Size fits in the rest of the file; otherwise it returns
\* FALSE, leaves the descriptor unwritten and sets LastError to the error of
\* the first violated condition.
C4_Decision ==
    pc = "ranged" =>
        LET f == RangeFile
            magicOk == f.Magic \in {267, 523}
            va == f.VirtualAddress
            lastEnd == (f.sections[Len(f.sections)].PointerToRawData
                        + f.sections[Len(f.sections)].SizeOfRawData) % UMod
            sectionsOk == f.NumberOfSections > 0
            vaOk == va >= lastEnd /\ va < f.FileSize
            sizeOk == f.Size <= f.FileSize - va
            fieldOff == IF f.Magic = 523 THEN 168 ELSE 152
        IN  /\ RangeRet = (magicOk /\ (va = 0 \/ (sectionsOk /\ vaOk /\ sizeOk)))
            /\ RangeRet =>
                  /\ view.ExcludeData.written
                  /\ view.ExcludeData.ChecksumOffset = (f.e_lfanew + 88) % UMod
                  /\ view.ExcludeData.SecurityOffset = (f.e_lfanew + fieldOff) % UMod
                  /\ view.ExcludeData.SecurityDirectory =
                        [VirtualAddress |-> va, Size |-> f.Size]
                  /\ view.LastError = "NONE"
            /\ ~RangeRet =>
                  /\ view.ExcludeData = NoExcludeData
                  /\ view.LastError =
                        IF ~magicOk THEN "IMAGE_VERIFY_BAD_OPTIONAL_HEADER_MAGIC"
                        ELSE IF ~sectionsOk THEN "IMAGE_VERIFY_BAD_SECTION_COUNT"
                        ELSE IF ~vaOk THEN "IMAGE_VERIFY_BAD_SECURITY_DIRECTORY_VA"
                        ELSE "IMAGE_VERIFY_BAD_SECURITY_DIRECTORY_SIZE"

\* C4 witness: a signed file with two sections whose directory passes both
\* address checks and is rejected for its size.
C4_Witness ==
    /\ pc = "ranged"
    /\ ~RangeRet
    /\ RangeFile.NumberOfSections = 2
    /\ view.LastError = "IMAGE_VERIFY_BAD_SECURITY_DIRECTORY_SIZE"

\* C5: in every accepted image with VirtualAddress # 0, VirtualAddress lies
\* inside the raw-data span [PointerToRawData, PointerToRawData +
\* SizeOfRawData) of no entry of the section table.
C5_NoSectionAliased ==
    (pc = "ranged" /\ RangeRet /\ RangeFile.VirtualAddress # 0) =>
        \A i \in 1..RangeFile.NumberOfSections :
            LET s == RangeFile.sections[i]
            IN  ~(/\ s.PointerToRawData <= RangeFile.VirtualAddress
                  /\ RangeFile.VirtualAddress
                        < U32Add(s.PointerToRawData, s.SizeOfRawData))

\* C6: every descriptor HashpGetExcludeRange produces satisfies
\* checksumOffset + 4 <= securityOffset and securityOffset + 8 <= fileSize.
C6_DescriptorInvariant ==
    (pc = "ranged" /\ RangeRet) =>
        /\ U32Add(view.ExcludeData.ChecksumOffset, CheckSumFieldSize)
              <= view.ExcludeData.SecurityOffset
        /\ U32Add(view.ExcludeData.SecurityOffset, DataDirectorySize)
              <= view.FileSize

----------------------------------------------------------------------------
(* Claims about the hashers and the context (Spec) *)

\* The outcome of file k was produced by a hasher run to its return.
Hashed(k) == k <= Len(out) /\ out[k].stage = "hashed"

\* The offsets at which two files of the same size differ.
DiffOffsets(f, g) == {p \in 0..(f.FileSize - 1) : Byte(f, p) # Byte(g, p)}

InField(p, start, size) == p >= start /\ p < start + size

\* files is an unsigned file of size N followed by the same file signed:
\* VirtualAddress = N, a certificate blob appended, and no byte below N
\* changed outside the checksum field and the directory entry.
SignedPair ==
    /\ Len(files) = 2
    /\ files[1].VirtualAddress = 0
    /\ files[2].VirtualAddress = files[1].FileSize
    /\ files[2].FileSize > files[1].FileSize
    /\ files[2].e_lfanew = files[1].e_lfanew
    /\ files[2].Magic = files[1].Magic
    /\ files[2].sections = files[1].sections
    /\ \A p \in DiffOffsets(files[1], files[2]) :
          \/ InField(p, ChecksumOffsetOf(files[1]), 4)
          \/ InField(p, SecurityOffsetOf(files[1]), 8)

\* C1: an unsigned file and the same file signed, both accepted and hashed
\* by CalculateAuthenticodeHash on an engine that does not fail, give the
\* same result, and when the hasher completes the engine was fed the same
\* bytes: the same data and the same number of padding zeros.
C1_SignatureInvariance ==
    (/\ pc = "done" /\ req.mode = "auth" /\ SignedPair
     /\ Hashed(1) /\ Hashed(2)
     /\ ~out[1].engine.anyFail /\ ~out[2].engine.anyFail)
    => /\ out[1].ret = out[2].ret
       /\ out[1].ret =>
             /\ out[1].fed = out[2].fed
             /\ out[1].engine.nData = out[2].engine.nData
             /\ out[1].engine.nPad = out[2].engine.nPad

\* C1 witness: both files of a signed pair were hashed to a digest, padding
\* included, the signed one carrying a blob.
C1_Witness ==
    /\ pc = "done" /\ req.mode = "auth" /\ SignedPair
    /\ Hashed(1) /\ Hashed(2)
    /\ out[1].ret /\ out[2].ret
    /\ out[2].engine.nPad > 0
    /\ files[2].Size > 0

\* certEnd of the running file.
CertEnd ==
    IF view.ExcludeData.SecurityDirectory.VirtualAddress = 0
    THEN view.FileSize
    ELSE view.ExcludeData.SecurityDirectory.VirtualAddress

\* C2: the spans CalculateAuthenticodeHash hands to the engine lie inside the
\* file, and the three of them are [0, checksumOffset), [checksumOffset + 4,
\* securityOffset) and [securityOffset + 8, certEnd) with no negative length,
\* so that with the two skipped fields and the tail from certEnd they
\* partition [0, fileSize).
C2_Coverage ==
    (req.mode = "auth" /\ pc \in {"a1", "a2", "a3", "a_fin", "pad_rest", "pad_ret", "destroy"})
    => LET c == view.ExcludeData.ChecksumOffset
           s == view.ExcludeData.SecurityOffset
           sp == engine.spans
       IN  /\ \A k \in 1..Len(sp) : sp[k][1] + sp[k][2] <= view.FileSize
           /\ Len(sp) = 3 =>
                 /\ c + 4 <= s /\ s + 8 <= CertEnd /\ CertEnd <= view.FileSize
                 /\ sp = << <<0, c>>, <<c + 4, s - (c + 4)>>,
                            <<s + 8, CertEnd - (s + 8)>> >>

\* Bytes CalculateFirstPageHash skipped when it stands at offset o: 4 for the
\* checksum field and 8 for the directory entry, each if passed.
PageSkipped(o) ==
    (IF o > view.ExcludeData.ChecksumOffset THEN 4 ELSE 0)
    + (IF o > view.ExcludeData.SecurityOffset THEN 8 ELSE 0)

\* C3: when CalculateFirstPageHash reaches finalize, the bytes it hashed plus
\* the bytes it skipped plus the zero bytes it padded are exactly PageSize.
C3_PageCoverage ==
    (req.mode = "page" /\ pc = "p_fin")
    => engine.nData + PageSkipped(loc.offset) + engine.nPad = req.PageSize

\* Both files of a pair were accepted and hashed to a digest.
BothDigested ==
    /\ pc = "done" /\ req.mode = "auth"
    /\ Len(files) = 2
    /\ Hashed(1) /\ Hashed(2)
    /\ out[1].ret /\ out[2].ret

\* The offsets at which the second file differs from the first, if the two
\* have the same size.
TamperedAt ==
    IF files[2].FileSize = files[1].FileSize
    THEN DiffOffsets(files[1], files[2])
    ELSE {}

\* C7 as claimed: changing one byte outside the checksum field and outside
\* the certificate blob [VirtualAddress, VirtualAddress + Size) changes the
\* bytes fed to the engine.
C7_TamperOutsideBlob ==
    BothDigested =>
        LET D == TamperedAt
        IN  \A p \in D :
               (/\ D = {p}
                /\ ~InField(p, ChecksumOffsetOf(files[1]), 4)
                /\ ~InField(p, files[1].VirtualAddress, files[1].Size))
               => out[1].fed # out[2].fed

\* The end of the hashed part of file f.
CertEndOf(f) == IF f.VirtualAddress = 0 THEN f.FileSize ELSE f.VirtualAddress

\* p lies in one of the three spans hashed of f.
InHashedSpan(f, p) ==
    /\ p < CertEndOf(f)
    /\ ~InField(p, ChecksumOffsetOf(f), 4)
    /\ ~InField(p, SecurityOffsetOf(f), 8)

\* C7 amended: changing one byte inside one of the three hashed spans, the
\* exclusion descriptor staying the same, changes the bytes fed to the
\* engine whenever the hasher completes on both images.
C7_TamperInHashedSpan ==
    BothDigested =>
        LET D == TamperedAt
        IN  \A p \in D :
               (/\ D = {p}
                /\ out[1].excl = out[2].excl
                /\ InHashedSpan(files[1], p))
               => out[1].fed # out[2].fed

\* C7 witness: a pair differing only in the last byte before a certificate
\* blob, both hashed to a digest.
C7_Witness ==
    /\ BothDigested
    /\ files[1].VirtualAddress # 0
    /\ TamperedAt = {files[1].VirtualAddress - 1}
    /\ out[1].excl = out[2].excl

\* The resources of the current file's context that are open.
Held == {x \in {"context", "AlgHandle", "HashObject", "Hash", "HashHandle"} :
            <<cur, x>> \in live}

\* C8: when CreateHashContext returns a failure nothing it acquired is still
\* open and *Context is NULL; after DestroyHashContext nothing of the
\* context is open.
C8_ReleasedOnFailure ==
    /\ (pc = "created" /\ ~NT_SUCCESS(loc.ntStatus)) => (Held = {} /\ ctx = "NULL")
    /\ (pc = "next" /\ Hashed(cur)) => Held = {}

\* C9: if an update made by HashpAddPad fails, HashpAddPad returns a failure,
\* and the hasher returns FALSE without having finalized.
C9_PadFailurePropagates ==
    /\ (pc = "pad_ret" /\ loc.padFailed) => ~NT_SUCCESS(loc.ntStatus)
    /\ \A k \in 1..Len(out) :
          (out[k].stage = "hashed" /\ out[k].padFailed)
          => (~out[k].ret /\ out[k].engine.nFinish = 0)

\* C10: in a hasher run finalize is invoked at most once and nothing is fed
\* after it; the hasher returns TRUE only if finalize was invoked once and
\* succeeded; when one of its own update calls failed or a fault was trapped
\* it returns FALSE and finalize was not invoked.
C10_EngineOrdering ==
    /\ engine.nFinish <= 1
    /\ engine.afterFinish = 0
    /\ \A k \in 1..Len(out) :
          out[k].stage = "hashed" =>
             /\ out[k].ret => (out[k].engine.nFinish = 1 /\ out[k].engine.finishOk)
             /\ (out[k].engine.directFail \/ out[k].engine.faulted)
                => (~out[k].ret /\ out[k].engine.nFinish = 0)

\* C10 witness: of two files, the hasher returned TRUE on the first after
\* one successful finalize, and FALSE on the second after one of its own
\* updates failed with data already fed.
C10_Witness ==
    /\ pc = "done"
    /\ Hashed(1) /\ Hashed(2)
    /\ out[1].ret /\ out[1].engine.nFinish = 1
    /\ out[2].engine.directFail /\ out[2].engine.nData > 0 /\ ~out[2].ret

====
